---- MODULE Spec2Model ----
(***************************************************************************)
(* Model of the tokval valuation engine (src/src/valuation.rs and          *)
(* src/src/model.rs): calculate_full_valuation as a step-by-step state     *)
(* machine, one step per statement group / loop iteration.                 *)
(*                                                                         *)
(* Numbers.  The program computes in f64.  Here a finite f64 is a          *)
(* fixed-point integer with FP units per 1.0 (0.045 is 450, 199.98 is      *)
(* 1999800); products and quotients are truncated toward minus infinity.   *)
(* The three non-finite f64 values are the reserved integers PosInf,       *)
(* NegInf and NaN, and every arithmetic operator below treats them as      *)
(* IEEE-754 does.  investor_count (u32) is a plain integer.                *)
(***************************************************************************)
EXTENDS Integers, Sequences, FiniteSets, TLC

\* ------------------------------------------------------------------------
\* f64 arithmetic
\* ------------------------------------------------------------------------

FP == 10 * 1000

PosInf == 2000000000
NegInf == -2000000000
NaN == PosInf + 1

IsNaN(x) == x = NaN
IsFinite(x) == NegInf < x /\ x < PosInf

Sign(x) == IF x > 0 THEN 1 ELSE IF x < 0 THEN -1 ELSE 0

\* a == b on f64: NaN equals nothing.
FEq(a, b) == ~IsNaN(a) /\ ~IsNaN(b) /\ a = b

\* a < b and a <= b on f64: false as soon as one side is NaN.
FLt(a, b) == ~IsNaN(a) /\ ~IsNaN(b) /\ a < b

FLe(a, b) == ~IsNaN(a) /\ ~IsNaN(b) /\ a <= b

\* a + b on f64.
FAdd(a, b) ==
  IF IsNaN(a) \/ IsNaN(b) THEN NaN
  ELSE IF IsFinite(a) /\ IsFinite(b) THEN a + b
  ELSE IF IsFinite(a) THEN b
  ELSE IF IsFinite(b) THEN a
  ELSE IF a = b THEN a
  ELSE NaN

\* -a on f64.
FNeg(a) == IF IsNaN(a) THEN NaN ELSE -a

\* a - b on f64.
FSub(a, b) == FAdd(a, FNeg(b))

\* Product of two finite values, floor(a * b / FP), without an intermediate
\* product that leaves 32 bits: with a = ah * FP + al and b = bh * FP + bl,
\* a * b / FP = ah * bh * FP + ah * bl + al * bh + (al * bl) / FP.
MulFin(a, b) ==
  LET ah == a \div FP
      al == a % FP
      bh == b \div FP
      bl == b % FP
  IN  ah * bh * FP + ah * bl + al * bh + (al * bl) \div FP

\* a * b on f64.
FMul(a, b) ==
  IF IsNaN(a) \/ IsNaN(b) THEN NaN
  ELSE IF IsFinite(a) /\ IsFinite(b) THEN MulFin(a, b)
  ELSE IF a = 0 \/ b = 0 THEN NaN
  ELSE IF Sign(a) * Sign(b) > 0 THEN PosInf
  ELSE NegInf

\* Quotient of two finite values, b > 0: floor(a * FP / b).
DivPos(a, b) ==
  LET q == a \div b
      r == a % b
      r1 == r * 10
      d1 == r1 \div b
      r2 == (r1 % b) * 10
      d2 == r2 \div b
      r3 == (r2 % b) * 10
      d3 == r3 \div b
      r4 == (r3 % b) * 10
      d4 == r4 \div b
  IN  q * FP + d1 * 1000 + d2 * 100 + d3 * 10 + d4

\* a / b on f64.
FDiv(a, b) ==
  IF IsNaN(a) \/ IsNaN(b) THEN NaN
  ELSE IF IsFinite(a) /\ IsFinite(b) THEN
         IF b = 0 THEN (IF a = 0 THEN NaN ELSE IF a > 0 THEN PosInf ELSE NegInf)
         ELSE IF b > 0 THEN DivPos(a, b)
         ELSE DivPos(-a, -b)
  ELSE IF IsFinite(a) THEN 0
  ELSE IF IsFinite(b) THEN (IF Sign(a) * (IF b < 0 THEN -1 ELSE 1) > 0 THEN PosInf ELSE NegInf)
  ELSE NaN

\* f64::min and f64::max: when one argument is NaN the other is returned.
FMin(a, b) == IF IsNaN(a) THEN b ELSE IF IsNaN(b) THEN a ELSE IF a < b THEN a ELSE b

FMax(a, b) == IF IsNaN(a) THEN b ELSE IF IsNaN(b) THEN a ELSE IF a > b THEN a ELSE b

\* ln x for FP/2 <= x < 2*FP: 2 * (z + z^3/3 + z^5/5 + z^7/7 + z^9/9) with
\* z = (x - 1) / (x + 1).
LnSeries(x) ==
  LET z == DivPos(x - FP, x + FP)
      z2 == MulFin(z, z)
      z3 == MulFin(z2, z)
      z5 == MulFin(z2, z3)
      z7 == MulFin(z2, z5)
      z9 == MulFin(z2, z7)
  IN  2 * (z + z3 \div 3 + z5 \div 5 + z7 \div 7 + z9 \div 9)

Ln2 == -LnSeries(FP \div 2)

\* ln x for finite x > 0, by halving or doubling x into [FP/2, 2*FP).
RECURSIVE Ln(_)
Ln(x) ==
  IF x < FP \div 2 THEN Ln(2 * x) - Ln2
  ELSE IF x >= 2 * FP THEN Ln(x \div 2) + Ln2
  ELSE LnSeries(x)

\* e^y for finite 0 <= y: the Taylor series in Horner form, 12 terms.
RECURSIVE ExpHorner(_, _)
ExpHorner(y, n) ==
  IF n > 12 THEN FP
  ELSE FP + MulFin(y, ExpHorner(y, n + 1)) \div n

\* e^y for finite y.
Exp(y) == IF y >= 0 THEN ExpHorner(y, 1) ELSE DivPos(FP, ExpHorner(-y, 1))

\* f64::powf(x, t) for a finite exponent t > 0 that is no integer (or is 1):
\* NaN for NaN or a negative base, 0 for a zero base, +inf for +inf,
\* e^(t ln x) otherwise.
powf(x, t) ==
  IF IsNaN(x) THEN NaN
  ELSE IF x = PosInf THEN PosInf
  ELSE IF x < 0 THEN NaN
  ELSE IF x = 0 THEN 0
  ELSE Exp(MulFin(t, Ln(x)))

\* ------------------------------------------------------------------------
\* Scenario catalog (model.rs)
\* ------------------------------------------------------------------------

\* Mutant of PayoutAll: the enumeration visits Day90 twice.
PayoutAllRepeated == <<"Day60", "Day90", "Day120", "Day90">>

\* PayoutScenario::all()
PayoutAll == <<"Day60", "Day90", "Day120">>

\* Mutant of VolatilityAll: the scenarios are enumerated from Extreme to Low.
VolatilityAllDescending == <<"Extreme", "High", "Typical", "Low">>

\* Mutant of VolatilityAll: the enumeration leaves out High.
VolatilityAllNoHigh == <<"Low", "Typical", "Extreme">>

\* VolatilityScenario::all()
VolatilityAll == <<"Low", "Typical", "High", "Extreme">>

\* Mutant of LiftAll: the High lift scenario is not enumerated.
LiftAllNoHigh == <<"Low", "Medium">>

\* LiftScenario::all()
LiftAll == <<"Low", "Medium", "High">>

\* Option<LiftScenario>::None, the lift tag of a baseline row.
NoLift == "None"

DaysPerYear == 365

\* PayoutScenario::days
days(payout) ==
  CASE payout = "Day60" -> 60
    [] payout = "Day90" -> 90
    [] payout = "Day120" -> 120

\* PayoutScenario::years: days / 365.0
years(payout) == FDiv(days(payout) * FP, DaysPerYear * FP)

\* Mutant of premium: the premium of High is 0.02 instead of 0.20.
premium_high_typo(volatility) ==
  CASE volatility = "Low" -> 500
    [] volatility = "Typical" -> 1000
    [] volatility = "High" -> 200
    [] volatility = "Extreme" -> 3000

\* VolatilityScenario::premium: 0.05, 0.10, 0.20, 0.30
premium(volatility) ==
  CASE volatility = "Low" -> 500
    [] volatility = "Typical" -> 1000
    [] volatility = "High" -> 2000
    [] volatility = "Extreme" -> 3000

\* Mutant of activation_factor: the factors of Low and High are exchanged.
activation_factor_swapped(lift) ==
  CASE lift = "Low" -> 15000
    [] lift = "Medium" -> 10000
    [] lift = "High" -> 5000

\* LiftScenario::activation_factor: 0.5, 1.0, 1.5
activation_factor(lift) ==
  CASE lift = "Low" -> 5000
    [] lift = "Medium" -> 10000
    [] lift = "High" -> 15000

\* Mutant of additional_audience: at least one investor is assumed.
additional_audience_min1(lift, investor_count, lift_per_investor) ==
  FMul(FMul((IF investor_count < 1 THEN 1 ELSE investor_count) * FP, lift_per_investor),
       activation_factor(lift))

\* LiftScenario::additional_audience:
\* (investor_count as f64) * lift_per_investor * activation_factor
additional_audience(lift, investor_count, lift_per_investor) ==
  FMul(FMul(investor_count * FP, lift_per_investor), activation_factor(lift))

\* Mutant of quarterly_lift: one month instead of three.
quarterly_lift_monthly(lift, investor_count, lift_per_investor, rpm) ==
  LET audience == additional_audience(lift, investor_count, lift_per_investor)
  IN  FMul(audience, FDiv(rpm, 1000 * FP))

\* LiftScenario::quarterly_lift: audience * (rpm / 1000.0) * 3.0
quarterly_lift(lift, investor_count, lift_per_investor, rpm) ==
  LET audience == additional_audience(lift, investor_count, lift_per_investor)
  IN  FMul(FMul(audience, FDiv(rpm, 1000 * FP)), 3 * FP)

\* Mutant of total_rate: the three components are compounded,
\* (1 + a)(1 + b)(1 + c) - 1, instead of summed.
total_rate_compounded(c) ==
  FSub(FMul(FMul(FAdd(FP, c.risk_free_rate), FAdd(FP, c.volatility_premium)),
            FAdd(FP, c.platform_risk_premium)), FP)

\* DiscountRateComponents::total_rate
total_rate(c) == FAdd(FAdd(c.risk_free_rate, c.volatility_premium), c.platform_risk_premium)

\* ------------------------------------------------------------------------
\* Pure functions of valuation.rs
\* ------------------------------------------------------------------------

\* Result<_, ModelError>
Ok(v) == [ok |-> TRUE, value |-> v]

Err(kind, msg) == [ok |-> FALSE, error |-> kind, message |-> msg]

\* raw_forecast * (1.0 + adjustment_factor)
calculate_adjusted_baseline(raw_forecast, adjustment_factor) ==
  FMul(raw_forecast, FAdd(FP, adjustment_factor))

calculate_discount_rate(in, volatility_scenario) ==
  [risk_free_rate |-> in.risk_free_rate,
   volatility_premium |-> premium(volatility_scenario),
   platform_risk_premium |-> in.platform_risk_premium]

\* Mutant of calculate_present_value: the discount_rate < -1.0 check is missing.
calculate_present_value_unchecked(cash_flow, discount_rate, time_years) ==
  LET denominator == powf(FAdd(FP, discount_rate), time_years)
  IN  IF FEq(denominator, 0)
      THEN Err("CalculationError",
               "Present value calculation resulted in division by zero")
      ELSE Ok(FDiv(cash_flow, denominator))

\* Mutant of calculate_present_value: the cash flow is compounded
\* (multiplied by the denominator) instead of discounted.
calculate_present_value_compounding(cash_flow, discount_rate, time_years) ==
  IF FLt(discount_rate, -FP)
  THEN Err("CalculationError",
           "Discount rate would result in division by zero or negative denominator")
  ELSE LET denominator == powf(FAdd(FP, discount_rate), time_years)
       IN  IF FEq(denominator, 0)
           THEN Err("CalculationError",
                    "Present value calculation resulted in division by zero")
           ELSE Ok(FMul(cash_flow, denominator))

\* Mutant of calculate_present_value: the denominator == 0.0 check is missing.
calculate_present_value_dividing_by_zero(cash_flow, discount_rate, time_years) ==
  IF FLt(discount_rate, -FP)
  THEN Err("CalculationError",
           "Discount rate would result in division by zero or negative denominator")
  ELSE Ok(FDiv(cash_flow, powf(FAdd(FP, discount_rate), time_years)))

\* PV = cash_flow / (1 + discount_rate)^time_years, after the two checks.
calculate_present_value(cash_flow, discount_rate, time_years) ==
  IF FLt(discount_rate, -FP)
  THEN Err("CalculationError",
           "Discount rate would result in division by zero or negative denominator")
  ELSE LET denominator == powf(FAdd(FP, discount_rate), time_years)
       IN  IF FEq(denominator, 0)
           THEN Err("CalculationError",
                    "Present value calculation resulted in division by zero")
           ELSE Ok(FDiv(cash_flow, denominator))

\* Mutant of FoldMin: the fold starts from 0.0 instead of +inf.
FoldMinFromZero(rows) ==
  LET all_values == {rows[i].present_value : i \in 1..Len(rows)}
      kept == {x \in all_values : ~IsNaN(x)} \cup {0}
  IN  CHOOSE m \in kept : \A x \in kept : FMin(m, x) = m

\* all_values.iter().cloned().fold(f64::INFINITY, f64::min): f64::min keeps
\* the accumulator when the next value is NaN, so the fold yields the least
\* of +inf and the values that are not NaN.
FoldMin(rows) ==
  LET all_values == {rows[i].present_value : i \in 1..Len(rows)}
      kept == {x \in all_values : ~IsNaN(x)} \cup {PosInf}
  IN  CHOOSE m \in kept : \A x \in kept : FMin(m, x) = m

\* all_values.iter().cloned().fold(f64::NEG_INFINITY, f64::max), likewise.
FoldMax(rows) ==
  LET all_values == {rows[i].present_value : i \in 1..Len(rows)}
      kept == {x \in all_values : ~IsNaN(x)} \cup {NegInf}
  IN  CHOOSE m \in kept : \A x \in kept : FMax(m, x) = m

\* Mutant of FirstMatch: the lift_scenario field is not compared.
FirstMatchIgnoringLift(rows, payout, vol, lift) ==
  LET matches(i) == /\ rows[i].payout_scenario = payout
                    /\ rows[i].volatility_scenario = vol
  IN  IF \E i \in 1..Len(rows) : matches(i)
      THEN CHOOSE i \in 1..Len(rows) : matches(i) /\ \A j \in 1..(i - 1) : ~matches(j)
      ELSE 0

\* all_valuations.iter().find(..): the index of the first row with the
\* given key, 0 if there is none.
FirstMatch(rows, payout, vol, lift) ==
  LET matches(i) == /\ rows[i].payout_scenario = payout
                    /\ rows[i].volatility_scenario = vol
                    /\ rows[i].lift_scenario = lift
  IN  IF \E i \in 1..Len(rows) : matches(i)
      THEN CHOOSE i \in 1..Len(rows) : matches(i) /\ \A j \in 1..(i - 1) : ~matches(j)
      ELSE 0

\* Mutant of find_value: a missing row is replaced by the value 0.
find_value_or_zero(rows, payout, vol, lift) ==
  LET i == FirstMatch(rows, payout, vol, lift)
  IN  IF i = 0 THEN Ok(0) ELSE Ok(rows[i].present_value)

\* The closure find_value of calculate_summary_statistics.
find_value(rows, payout, vol, lift) ==
  LET i == FirstMatch(rows, payout, vol, lift)
  IN  IF i = 0
      THEN Err("CalculationError", "Could not find value for scenario combo")
      ELSE Ok(rows[i].present_value)

\* ((a - b) / reference) * 100.0
Impact(a, b, reference) == FMul(FDiv(FSub(a, b), reference), 100 * FP)

\* The seven fixed keys (payout, volatility, lift) that
\* calculate_summary_statistics looks up.
\* Mutant of CentralKey: the central estimate is looked up at Day60.
CentralKeyDay60 == <<"Day60", "Typical", "Medium">>

CentralKey == <<"Day90", "Typical", "Medium">>

LowVolKey == <<"Day90", "Low", "Medium">>

ExtremeVolKey == <<"Day90", "Extreme", "Medium">>

LowLiftKey == <<"Day90", "Typical", "Low">>

\* Mutant of HighLiftKey: the lift impact compares Medium lift with Low lift.
HighLiftKeyMedium == <<"Day90", "Typical", "Medium">>

HighLiftKey == <<"Day90", "Typical", "High">>

Day60Key == <<"Day60", "Typical", "Medium">>

Day120Key == <<"Day120", "Typical", "Medium">>

\* Mutant of calculate_summary_statistics: an impact whose reference value
\* is zero is refused with CalculationError.
calculate_summary_statistics_guarded(rows, adj_baseline) ==
  LET find(key) == find_value(rows, key[1], key[2], key[3])
      central_estimate == find(CentralKey)
      low_vol_value == find(LowVolKey)
      extreme_vol_value == find(ExtremeVolKey)
      low_lift_value == find(LowLiftKey)
      high_lift_value == find(HighLiftKey)
      day60_value == find(Day60Key)
      day120_value == find(Day120Key)
      lookups == <<central_estimate, low_vol_value, extreme_vol_value, low_lift_value,
                   high_lift_value, day60_value, day120_value>>
  IN  IF \E k \in 1..Len(lookups) : ~lookups[k].ok
      THEN lookups[CHOOSE k \in 1..Len(lookups) :
                     /\ ~lookups[k].ok
                     /\ \A j \in 1..(k - 1) : lookups[j].ok]
      ELSE IF \/ FEq(low_vol_value.value, 0)
              \/ FEq(low_lift_value.value, 0)
              \/ FEq(day60_value.value, 0)
      THEN Err("CalculationError", "Impact reference value is zero")
      ELSE Ok([min_valuation |-> FoldMin(rows),
               max_valuation |-> FoldMax(rows),
               central_estimate |-> central_estimate.value,
               best_volatility |-> "Low",
               worst_volatility |-> "Extreme",
               volatility_impact |-> Impact(low_vol_value.value, extreme_vol_value.value,
                                            low_vol_value.value),
               lift_impact |-> Impact(high_lift_value.value, low_lift_value.value,
                                      low_lift_value.value),
               payout_impact |-> Impact(day60_value.value, day120_value.value,
                                        day60_value.value),
               adjusted_baseline |-> adj_baseline])

calculate_summary_statistics(rows, adj_baseline) ==
  LET min_valuation == FoldMin(rows)
      max_valuation == FoldMax(rows)
      find(key) == find_value(rows, key[1], key[2], key[3])
      central_estimate == find(CentralKey)
      low_vol_value == find(LowVolKey)
      extreme_vol_value == find(ExtremeVolKey)
      low_lift_value == find(LowLiftKey)
      high_lift_value == find(HighLiftKey)
      day60_value == find(Day60Key)
      day120_value == find(Day120Key)
      lookups == <<central_estimate, low_vol_value, extreme_vol_value, low_lift_value,
                   high_lift_value, day60_value, day120_value>>
  IN  IF \E k \in 1..Len(lookups) : ~lookups[k].ok
      THEN lookups[CHOOSE k \in 1..Len(lookups) :
                     /\ ~lookups[k].ok
                     /\ \A j \in 1..(k - 1) : lookups[j].ok]
      ELSE Ok([min_valuation |-> min_valuation,
               max_valuation |-> max_valuation,
               central_estimate |-> central_estimate.value,
               best_volatility |-> "Low",
               worst_volatility |-> "Extreme",
               volatility_impact |-> Impact(low_vol_value.value, extreme_vol_value.value,
                                            low_vol_value.value),
               lift_impact |-> Impact(high_lift_value.value, low_lift_value.value,
                                      low_lift_value.value),
               payout_impact |-> Impact(day60_value.value, day120_value.value,
                                        day60_value.value),
               adjusted_baseline |-> adj_baseline])

\* ------------------------------------------------------------------------
\* The valuation tables of the report (report_generator.rs)
\* ------------------------------------------------------------------------

\* Display of PayoutScenario.
PayoutName(payout) ==
  CASE payout = "Day60" -> "60 Days" [] payout = "Day90" -> "90 Days"
    [] payout = "Day120" -> "120 Days"

\* value.round() as i64: f64::round rounds half away from zero; the cast
\* maps NaN to 0. Infinite values saturate and are formatted apart.
RoundToInt(value) ==
  IF IsNaN(value) THEN 0
  ELSE IF value >= 0 THEN (value + FP \div 2) \div FP
  ELSE -((-value + FP \div 2) \div FP)

\* Three digits of a group after the first one.
Pad3(n) ==
  IF n < 10 THEN "00" \o ToString(n)
  ELSE IF n < 100 THEN "0" \o ToString(n)
  ELSE ToString(n)

\* to_formatted_string(&Locale::en) of a natural number: groups of three
\* digits separated by commas.
RECURSIVE Grouped(_)
Grouped(n) ==
  IF n < 1000 THEN ToString(n)
  ELSE Grouped(n \div 1000) \o "," \o Pad3(n % 1000)

\* format!("${}", rounded_value.to_formatted_string(&Locale::en))
format_currency(value) ==
  IF value = PosInf THEN "$9,223,372,036,854,775,807"
  ELSE IF value = NegInf THEN "$-9,223,372,036,854,775,808"
  ELSE LET rounded_value == RoundToInt(value)
       IN  IF rounded_value < 0
           THEN "$-" \o Grouped(-rounded_value)
           ELSE "$" \o Grouped(rounded_value)

\* Mutant of Cell: a missing row is rendered as the formatted value 0.
CellOrZero(data, payout, volatility, lift) ==
  LET i == FirstMatch(data.all_valuations, payout, volatility, lift)
  IN  IF i = 0 THEN format_currency(0)
      ELSE format_currency(data.all_valuations[i].present_value)

\* One cell of a valuation table: .find(..).map(format_currency)
\* .unwrap_or_else(|| "N/A")
Cell(data, payout, volatility, lift) ==
  LET i == FirstMatch(data.all_valuations, payout, volatility, lift)
  IN  IF i = 0 THEN "N/A"
      ELSE format_currency(data.all_valuations[i].present_value)

\* The rows added to a valuation table: for each payout its name followed
\* by one cell per volatility.
TableRows(data, lift) ==
  [p \in 1..Len(PayoutAll) |->
     <<PayoutName(PayoutAll[p])>>
       \o [v \in 1..Len(VolatilityAll) |-> Cell(data, PayoutAll[p], VolatilityAll[v], lift)]]

build_baseline_valuation_table(data) == TableRows(data, NoLift)

build_valuation_table(data, lift_scenario) == TableRows(data, lift_scenario)

\* ------------------------------------------------------------------------
\* Inputs the caller may pass
\* ------------------------------------------------------------------------

MaxForecast == 2
MaxInvestors == 2

\* raw_forecast: -100, 0, 100, 200, ...
ForecastValues == {k * 100 * FP : k \in -1..MaxForecast}

\* baseline_audience: -1000, 0, 1000
AudienceValues == {-1000 * FP, 0, 1000 * FP}

\* rpm: -15, 0, 15, 20
RpmValues == {-15 * FP, 0, 15 * FP, 20 * FP}

\* risk_free_rate: 0, 0.045
RiskFreeValues == {0, 450}

\* platform_risk_premium: 0.12, -0.05, -0.10, -1.05, -1.10, -1.25, -1.40
PlatformRiskValues == {1200, -500, -1000, -10500, -11000, -12500, -14000}

\* platform_adjustment_factor: -1.5, -1.0, -0.091, 0
AdjustmentValues == {-15000, -10000, -910, 0}

\* investor_count: 0, 500, 1000, ...
InvestorValues == {k * 500 : k \in 0..MaxInvestors}

\* lift_per_investor: -10, 0, 10
LiftPerInvestorValues == {-10 * FP, 0, 10 * FP}

ValuationInputs ==
  [raw_forecast : ForecastValues,
   risk_free_rate : RiskFreeValues,
   platform_risk_premium : PlatformRiskValues,
   platform_adjustment_factor : AdjustmentValues,
   baseline_audience : AudienceValues,
   rpm : RpmValues,
   investor_count : InvestorValues,
   lift_per_investor : LiftPerInvestorValues]

\* ------------------------------------------------------------------------
\* calculate_full_valuation, step by step
\* ------------------------------------------------------------------------

VARIABLES
  inputs,            \* the caller's ValuationInputs
  pc,                \* the position in calculate_full_valuation
  adjusted_baseline, \* local
  discount_rates,    \* local HashMap<VolatilityScenario, DiscountRateComponents>
  all_valuations,    \* local Vec<ValuationResult>
  lift_valuations,   \* local HashMap<LiftScenario, Vec<ValuationResult>>
  lift_assumptions,  \* local LiftAssumptions
  lift_idx,          \* position of the loop over LiftScenario::all()
  payout_idx,        \* position of the loop over PayoutScenario::all()
  vol_idx,           \* position of the loop over VolatilityScenario::all()
  lift_amount,       \* local of the lift loop body
  lifted_revenue,    \* local of the lift loop body
  summary,           \* local SummaryStatistics
  pv_evals,          \* number of calls of calculate_present_value so far
  result,            \* what the call returned, once pc = "done"
  tables,            \* main's rendered valuation tables, once the report is generated
  calls,             \* number of calls of calculate_full_valuation begun so far
  history,           \* the inputs and the outcome of each call that is over
  order              \* the order in which the rows are computed

vars == <<inputs, pc, adjusted_baseline, discount_rates, all_valuations, lift_valuations,
          lift_assumptions, lift_idx, payout_idx, vol_idx, lift_amount, lifted_revenue,
          summary, pv_evals, result, tables, calls, history, order>>

\* What belongs to the caller of calculate_full_valuation, not to the call.
context == <<tables, calls, history, order>>

\* A local that has not been assigned yet.
Unset == <<>>

Pending == [status |-> "Pending"]

\* The order of the code: baseline rows first, then the lift scenarios, each
\* by payout and then by volatility.
Sequential == [stride |-> 1, offset |-> 0]

\* Err(ModelError::kind(message)) as the value of the call.
Failure(kind, msg) == [status |-> "Err", error |-> kind, message |-> msg]

\* Ok(ReportData { .. }) as the value of the call.
Success(data) == [status |-> "Ok", data |-> data]

Init ==
  /\ inputs \in ValuationInputs
  /\ pc = "validate"
  /\ adjusted_baseline = Unset
  /\ discount_rates = Unset
  /\ all_valuations = Unset
  /\ lift_valuations = Unset
  /\ lift_assumptions = Unset
  /\ lift_idx = 0
  /\ payout_idx = 0
  /\ vol_idx = 0
  /\ lift_amount = Unset
  /\ lifted_revenue = Unset
  /\ summary = Unset
  /\ pv_evals = 0
  /\ result = Pending
  /\ tables = Unset
  /\ calls = 1
  /\ history = <<>>
  /\ order = Sequential

\* return Err(..): the call ends, the locals are dropped as they are.
Return(value) ==
  /\ pc' = "done"
  /\ result' = value

\* Mutant of Validate: the rpm check is missing.
ValidateNoRpm ==
  /\ pc = "validate"
  /\ IF FLe(inputs.raw_forecast, 0)
     THEN Return(Failure("InvalidInput", "Raw forecast must be positive"))
     ELSE IF FLe(inputs.baseline_audience, 0)
     THEN Return(Failure("InvalidInput", "Baseline audience must be positive"))
     ELSE pc' = "adjust" /\ UNCHANGED result
  /\ UNCHANGED <<context, inputs, adjusted_baseline, discount_rates, all_valuations, lift_valuations,
                 lift_assumptions, lift_idx, payout_idx, vol_idx, lift_amount,
                 lifted_revenue, summary, pv_evals>>

\* Mutant of Validate: a platform_adjustment_factor at or below -1 is rejected too.
ValidateRejectsAdjustment ==
  /\ pc = "validate"
  /\ IF FLe(inputs.raw_forecast, 0)
     THEN Return(Failure("InvalidInput", "Raw forecast must be positive"))
     ELSE IF FLe(inputs.baseline_audience, 0)
     THEN Return(Failure("InvalidInput", "Baseline audience must be positive"))
     ELSE IF FLe(inputs.rpm, 0)
     THEN Return(Failure("InvalidInput", "RPM must be positive"))
     ELSE IF FLe(inputs.platform_adjustment_factor, -FP)
     THEN Return(Failure("InvalidInput", "Platform adjustment factor must be above -1"))
     ELSE pc' = "adjust" /\ UNCHANGED result
  /\ UNCHANGED <<context, inputs, adjusted_baseline, discount_rates, all_valuations,
                 lift_valuations, lift_assumptions, lift_idx, payout_idx, vol_idx,
                 lift_amount, lifted_revenue, summary, pv_evals>>

\* valuation.rs 50-62: the three positivity checks, in order.
Validate ==
  /\ pc = "validate"
  /\ IF FLe(inputs.raw_forecast, 0)
     THEN Return(Failure("InvalidInput", "Raw forecast must be positive"))
     ELSE IF FLe(inputs.baseline_audience, 0)
     THEN Return(Failure("InvalidInput", "Baseline audience must be positive"))
     ELSE IF FLe(inputs.rpm, 0)
     THEN Return(Failure("InvalidInput", "RPM must be positive"))
     ELSE pc' = "adjust" /\ UNCHANGED result
  /\ UNCHANGED <<context, inputs, adjusted_baseline, discount_rates, all_valuations, lift_valuations,
                 lift_assumptions, lift_idx, payout_idx, vol_idx, lift_amount,
                 lifted_revenue, summary, pv_evals>>

\* valuation.rs 65-66
AdjustBaseline ==
  /\ pc = "adjust"
  /\ adjusted_baseline' =
       calculate_adjusted_baseline(inputs.raw_forecast, inputs.platform_adjustment_factor)
  /\ pc' = "rates"
  /\ UNCHANGED <<context, inputs, discount_rates, all_valuations, lift_valuations, lift_assumptions,
                 lift_idx, payout_idx, vol_idx, lift_amount, lifted_revenue, summary,
                 pv_evals, result>>

\* Mutant of ComputeRates: the result vector is a buffer that outlives the
\* call and is not emptied.
ComputeRatesKeepingRows ==
  /\ pc = "rates"
  /\ discount_rates' =
       [v \in {VolatilityAll[i] : i \in 1..Len(VolatilityAll)} |->
          calculate_discount_rate(inputs, v)]
  /\ payout_idx' = 1
  /\ vol_idx' = 1
  /\ pc' = "baseline"
  /\ UNCHANGED <<context, inputs, adjusted_baseline, all_valuations, lift_valuations,
                 lift_assumptions, lift_idx, lift_amount, lifted_revenue, summary,
                 pv_evals, result>>

\* valuation.rs 69-74: the rate table, one entry per volatility scenario,
\* and the empty result vector.
ComputeRates ==
  /\ pc = "rates"
  /\ discount_rates' =
       [v \in {VolatilityAll[i] : i \in 1..Len(VolatilityAll)} |->
          calculate_discount_rate(inputs, v)]
  /\ all_valuations' = <<>>
  /\ payout_idx' = 1
  /\ vol_idx' = 1
  /\ pc' = "baseline"
  /\ UNCHANGED <<context, inputs, adjusted_baseline, lift_valuations, lift_assumptions, lift_idx,
                 lift_amount, lifted_revenue, summary, pv_evals, result>>

\* One iteration of the body of the nested loops over payout and volatility
\* (valuation.rs 79-88 and 112-121): evaluate the present value of cash_flow;
\* on Err the `?` returns it, on Ok the row is pushed and the loops advance;
\* after the last iteration control is at `after`.
RowStep(cash_flow, lift, after) ==
  LET payout == PayoutAll[payout_idx]
      volatility == VolatilityAll[vol_idx]
      discount_rate == total_rate(discount_rates[volatility])
      pv == calculate_present_value(cash_flow, discount_rate, years(payout))
  IN  /\ pv_evals' = pv_evals + 1
      /\ IF ~pv.ok
         THEN /\ Return(Failure(pv.error, pv.message))
              /\ UNCHANGED <<all_valuations, payout_idx, vol_idx>>
         ELSE /\ all_valuations' =
                   Append(all_valuations,
                          [present_value |-> pv.value,
                           payout_scenario |-> payout,
                           volatility_scenario |-> volatility,
                           lift_scenario |-> lift])
              /\ IF vol_idx < Len(VolatilityAll)
                 THEN vol_idx' = vol_idx + 1 /\ UNCHANGED <<payout_idx, pc>>
                 ELSE IF payout_idx < Len(PayoutAll)
                 THEN payout_idx' = payout_idx + 1 /\ vol_idx' = 1 /\ UNCHANGED pc
                 ELSE pc' = after /\ UNCHANGED <<payout_idx, vol_idx>>
              /\ UNCHANGED result

\* valuation.rs 77-90
BaselineRow ==
  /\ pc = "baseline"
  /\ order = Sequential
  /\ RowStep(adjusted_baseline, NoLift, "lift_setup")
  /\ UNCHANGED <<context, inputs, adjusted_baseline, discount_rates, lift_valuations,
                 lift_assumptions, lift_idx, lift_amount, lifted_revenue, summary>>

\* valuation.rs 93-99
LiftSetup ==
  /\ pc = "lift_setup"
  /\ lift_valuations' = <<>>
  /\ lift_assumptions' =
       [baseline_audience |-> inputs.baseline_audience,
        rpm |-> inputs.rpm,
        investor_count |-> inputs.investor_count,
        lift_per_investor |-> inputs.lift_per_investor]
  /\ lift_idx' = 1
  /\ pc' = "lift_begin"
  /\ UNCHANGED <<context, inputs, adjusted_baseline, discount_rates, all_valuations, payout_idx,
                 vol_idx, lift_amount, lifted_revenue, summary, pv_evals, result>>

\* valuation.rs 101-108: the head of the lift loop body.
LiftBegin ==
  /\ pc = "lift_begin"
  /\ LET amount == quarterly_lift(LiftAll[lift_idx],
                                  lift_assumptions.investor_count,
                                  lift_assumptions.lift_per_investor,
                                  lift_assumptions.rpm)
     IN  /\ lift_amount' = amount
         /\ lifted_revenue' = FAdd(adjusted_baseline, amount)
  /\ payout_idx' = 1
  /\ vol_idx' = 1
  /\ pc' = "lift_row"
  /\ UNCHANGED <<context, inputs, adjusted_baseline, discount_rates, all_valuations, lift_valuations,
                 lift_assumptions, lift_idx, summary, pv_evals, result>>

\* valuation.rs 110-123
LiftRow ==
  /\ pc = "lift_row"
  /\ RowStep(lifted_revenue, LiftAll[lift_idx], "lift_end")
  /\ UNCHANGED <<context, inputs, adjusted_baseline, discount_rates, lift_valuations,
                 lift_assumptions, lift_idx, lift_amount, lifted_revenue, summary>>

\* valuation.rs 125-126: scenario_results (always empty) is stored and the
\* lift loop advances.
LiftEnd ==
  /\ pc = "lift_end"
  /\ lift_valuations' =
       [l \in (DOMAIN lift_valuations) \cup {LiftAll[lift_idx]} |->
          IF l = LiftAll[lift_idx] THEN <<>> ELSE lift_valuations[l]]
  /\ IF lift_idx < Len(LiftAll)
     THEN lift_idx' = lift_idx + 1 /\ pc' = "lift_begin"
     ELSE pc' = "summary" /\ UNCHANGED lift_idx
  /\ UNCHANGED <<context, inputs, adjusted_baseline, discount_rates, all_valuations,
                 lift_assumptions, payout_idx, vol_idx, lift_amount, lifted_revenue,
                 summary, pv_evals, result>>

\* valuation.rs 129
Summarise ==
  /\ pc = "summary"
  /\ LET s == calculate_summary_statistics(all_valuations, adjusted_baseline)
     IN  IF ~s.ok
         THEN Return(Failure(s.error, s.message)) /\ UNCHANGED summary
         ELSE summary' = s.value /\ pc' = "return" /\ UNCHANGED result
  /\ UNCHANGED <<context, inputs, adjusted_baseline, discount_rates, all_valuations, lift_valuations,
                 lift_assumptions, lift_idx, payout_idx, vol_idx, lift_amount,
                 lifted_revenue, pv_evals>>

\* Mutant of ReturnOk: the returned inputs carry the adjusted baseline as
\* their raw_forecast.
ReturnOkAdjustedInputs ==
  /\ pc = "return"
  /\ Return(Success([inputs |-> [inputs EXCEPT !.raw_forecast = adjusted_baseline],
                     all_valuations |-> all_valuations,
                     discount_rates |-> discount_rates,
                     summary |-> summary,
                     lift_assumptions |-> lift_assumptions]))
  /\ UNCHANGED <<context, inputs, adjusted_baseline, discount_rates, all_valuations,
                 lift_valuations, lift_assumptions, lift_idx, payout_idx, vol_idx,
                 lift_amount, lifted_revenue, summary, pv_evals>>

\* valuation.rs 131-137
ReturnOk ==
  /\ pc = "return"
  /\ Return(Success([inputs |-> inputs,
                     all_valuations |-> all_valuations,
                     discount_rates |-> discount_rates,
                     summary |-> summary,
                     lift_assumptions |-> lift_assumptions]))
  /\ UNCHANGED <<context, inputs, adjusted_baseline, discount_rates, all_valuations, lift_valuations,
                 lift_assumptions, lift_idx, payout_idx, vol_idx, lift_amount,
                 lifted_revenue, summary, pv_evals>>

\* main.rs 34-37: the ReportData of a successful call is handed to
\* generate_full_report, which builds the baseline table and one table per
\* lift scenario.
GenerateReport ==
  /\ pc = "done"
  /\ result.status = "Ok"
  /\ tables = Unset
  /\ tables' =
       [baseline |-> build_baseline_valuation_table(result.data),
        lift |-> [l \in {LiftAll[i] : i \in 1..Len(LiftAll)} |->
                    build_valuation_table(result.data, l)]]
  /\ UNCHANGED <<inputs, pc, adjusted_baseline, discount_rates, all_valuations,
                 lift_valuations, lift_assumptions, lift_idx, payout_idx, vol_idx,
                 lift_amount, lifted_revenue, summary, pv_evals, result, calls,
                 history, order>>

\* The steps of one call of calculate_full_valuation.
Call ==
  \/ Validate
  \/ AdjustBaseline
  \/ ComputeRates
  \/ BaselineRow
  \/ LiftSetup
  \/ LiftBegin
  \/ LiftRow
  \/ LiftEnd
  \/ Summarise
  \/ ReturnOk

Next ==
  \/ Call
  \/ GenerateReport

Spec == Init /\ [][Next]_vars

\* ------------------------------------------------------------------------
\* calculate_summary_statistics and the report tables on any row set
\* ------------------------------------------------------------------------

\* The rows of one lift tag, and of a whole result, in the loops of
\* valuation.rs 77-126.
RowsPerTag == Len(PayoutAll) * Len(VolatilityAll)

RowCount == (1 + Len(LiftAll)) * RowsPerTag

\* The key of the n-th row those loops push: the baseline rows first, then
\* the lift scenarios, each by payout and then by volatility.
KeyAt(n) ==
  LET tag == (n - 1) \div RowsPerTag
      r == (n - 1) % RowsPerTag
  IN  <<PayoutAll[(r \div Len(VolatilityAll)) + 1],
        VolatilityAll[(r % Len(VolatilityAll)) + 1],
        IF tag = 0 THEN NoLift ELSE LiftAll[tag]>>

MaxMissing == 2
MaxCopies == 2

\* Present values a row set may carry: negative, zero and positive amounts
\* of up to six digits, half of them ending in .5.
SamplePV(n, copy) == (n - RowCount \div 2) * 25005000 + (copy - 1) * FP

SampleRow(n, copy) ==
  [present_value |-> SamplePV(n, copy),
   payout_scenario |-> KeyAt(n)[1],
   volatility_scenario |-> KeyAt(n)[2],
   lift_scenario |-> KeyAt(n)[3]]

\* The keys a row set may lack: the seven keys of the summary and two
\* baseline keys.
DropCandidates ==
  {CentralKey, LowVolKey, ExtremeVolKey, LowLiftKey, HighLiftKey, Day60Key, Day120Key,
   <<"Day60", "Low", NoLift>>, <<"Day120", "Extreme", NoLift>>}

\* A row set: `copies` copies, with different present values, of the rows
\* whose key is not dropped.
RowsWithout(dropped, copies) ==
  LET kept(copy) ==
        SelectSeq([n \in 1..RowCount |-> SampleRow(n, copy)],
                  LAMBDA row : <<row.payout_scenario, row.volatility_scenario,
                                 row.lift_scenario>> \notin dropped)
  IN  IF copies = 0 THEN <<>>
      ELSE IF copies = 1 THEN kept(1)
      ELSE kept(1) \o [i \in 1..((copies - 1) * Len(kept(1))) |->
                         LET c == 2 + ((i - 1) \div Len(kept(1)))
                         IN  kept(c)[((i - 1) % Len(kept(1))) + 1]]

RowSets ==
  {RowsWithout(dropped, copies) :
     dropped \in {d \in SUBSET DropCandidates : Cardinality(d) <= MaxMissing},
     copies \in 0..MaxCopies}

SampleInputs ==
  [raw_forecast |-> 100 * FP,
   risk_free_rate |-> 450,
   platform_risk_premium |-> 1200,
   platform_adjustment_factor |-> -910,
   baseline_audience |-> 1000 * FP,
   rpm |-> 15 * FP,
   investor_count |-> 500,
   lift_per_investor |-> 10 * FP]

\* A ReportData around the rows: the tables read nothing but all_valuations.
ReportDataOf(rows) ==
  [inputs |-> SampleInputs,
   all_valuations |-> rows,
   discount_rates |->
     [v \in {VolatilityAll[i] : i \in 1..Len(VolatilityAll)} |->
        calculate_discount_rate(SampleInputs, v)],
   summary |->
     [min_valuation |-> 0, max_valuation |-> 0, central_estimate |-> 0,
      best_volatility |-> "Low", worst_volatility |-> "Extreme",
      volatility_impact |-> 0, lift_impact |-> 0, payout_impact |-> 0,
      adjusted_baseline |-> calculate_adjusted_baseline(
                              SampleInputs.raw_forecast,
                              SampleInputs.platform_adjustment_factor)],
   lift_assumptions |->
     [baseline_audience |-> SampleInputs.baseline_audience,
      rpm |-> SampleInputs.rpm,
      investor_count |-> SampleInputs.investor_count,
      lift_per_investor |-> SampleInputs.lift_per_investor]]

\* Either calculate_summary_statistics is about to be applied to a row set
\* (calls = 1, control at valuation.rs 129), or a ReportData holding the row
\* set is handed to the report generator (calls = 0, no call was made).
InitRows ==
  /\ all_valuations \in RowSets
  /\ inputs = SampleInputs
  /\ adjusted_baseline = ReportDataOf(all_valuations).summary.adjusted_baseline
  /\ discount_rates = ReportDataOf(all_valuations).discount_rates
  /\ lift_valuations = [l \in {LiftAll[i] : i \in 1..Len(LiftAll)} |-> <<>>]
  /\ lift_assumptions = ReportDataOf(all_valuations).lift_assumptions
  /\ lift_idx = Len(LiftAll)
  /\ payout_idx = Len(PayoutAll)
  /\ vol_idx = Len(VolatilityAll)
  /\ lift_amount = 0
  /\ lifted_revenue = adjusted_baseline
  /\ summary = Unset
  /\ pv_evals = 0
  /\ tables = Unset
  /\ history = <<>>
  /\ order = Sequential
  /\ \/ calls = 1 /\ pc = "summary" /\ result = Pending
     \/ calls = 0 /\ pc = "done" /\ result = Success(ReportDataOf(all_valuations))

NextRows ==
  \/ Summarise
  \/ ReturnOk
  \/ GenerateReport

SpecRows == InitRows /\ [][NextRows]_vars

\* ------------------------------------------------------------------------
\* calculate_full_valuation called several times
\* ------------------------------------------------------------------------

MaxCalls == 3

\* The inputs of the calls: invalid and valid ones, total rates above, at
\* and below -1, with and without investors.
CallInputs ==
  [raw_forecast : {0, 100 * FP},
   risk_free_rate : {0},
   platform_risk_premium : {1200, -10500, -12500},
   platform_adjustment_factor : {-910},
   baseline_audience : {1000 * FP},
   rpm : {15 * FP},
   investor_count : {0, 500},
   lift_per_investor : {10 * FP}]

InitCalls ==
  /\ inputs \in CallInputs
  /\ pc = "validate"
  /\ adjusted_baseline = Unset
  /\ discount_rates = Unset
  /\ all_valuations = Unset
  /\ lift_valuations = Unset
  /\ lift_assumptions = Unset
  /\ lift_idx = 0
  /\ payout_idx = 0
  /\ vol_idx = 0
  /\ lift_amount = Unset
  /\ lifted_revenue = Unset
  /\ summary = Unset
  /\ pv_evals = 0
  /\ result = Pending
  /\ tables = Unset
  /\ calls = 1
  /\ history = <<>>
  /\ order = Sequential

\* The caller keeps the outcome of the call that is over and calls
\* calculate_full_valuation again, with any inputs. The function has no
\* state outside its locals (valuation.rs 48-138 reads no static and no
\* field); the locals of the new call start as whatever the earlier call
\* left, the code assigning each of them before it reads it.
CallAgain ==
  /\ pc = "done"
  /\ calls < MaxCalls
  /\ history' = Append(history, [inputs |-> inputs, result |-> result])
  /\ calls' = calls + 1
  /\ inputs' \in CallInputs
  /\ pc' = "validate"
  /\ result' = Pending
  /\ pv_evals' = 0
  /\ UNCHANGED <<adjusted_baseline, discount_rates, all_valuations, lift_valuations,
                 lift_assumptions, lift_idx, payout_idx, vol_idx, lift_amount,
                 lifted_revenue, summary, tables, order>>

NextCalls ==
  \/ Call
  \/ CallAgain

SpecCalls == InitCalls /\ [][NextCalls]_vars

\* ------------------------------------------------------------------------
\* The rows computed in another order
\* ------------------------------------------------------------------------

MaxStride == 47
MaxOffset == 11

\* Orders of the RowCount row computations: the n-th computation is that of
\* the row the sequential loops compute as number
\* (stride * (n - 1) + offset) mod RowCount + 1, for strides that have no
\* common divisor with RowCount, so that every row is computed once.
Strides ==
  {s \in 1..MaxStride : \A d \in 2..s : ~(s % d = 0 /\ RowCount % d = 0)}

Orders == [stride : Strides, offset : 0..MaxOffset]

\* The row of key KeyAt(n), computed as the loop bodies compute it
\* (valuation.rs 79-88, 103-121): from adjusted_baseline, the revenue of its
\* lift scenario and the total rate of its volatility.
RowAt(n) ==
  LET payout == KeyAt(n)[1]
      volatility == KeyAt(n)[2]
      lift == KeyAt(n)[3]
      cash_flow ==
        IF lift = NoLift THEN adjusted_baseline
        ELSE FAdd(adjusted_baseline,
                  quarterly_lift(lift, inputs.investor_count, inputs.lift_per_investor,
                                 inputs.rpm))
  IN  [pv |-> calculate_present_value(cash_flow, total_rate(discount_rates[volatility]),
                                      years(payout)),
       payout_scenario |-> payout,
       volatility_scenario |-> volatility,
       lift_scenario |-> lift]

\* The rows in the order the sequential loops push them.
SequentialRows ==
  [n \in 1..RowCount |->
     LET row == RowAt(n)
     IN  [present_value |-> row.pv.value,
          payout_scenario |-> row.payout_scenario,
          volatility_scenario |-> row.volatility_scenario,
          lift_scenario |-> row.lift_scenario]]

\* One row computation of a run that does not follow the sequential order:
\* the next row of `order` is computed and pushed, a failing present value
\* ends the call, and once every row is there control is at valuation.rs 129.
AnyOrderRow ==
  /\ pc = "baseline"
  /\ order # Sequential
  /\ LET n == Len(all_valuations) + 1
         row == RowAt(((order.stride * (n - 1) + order.offset) % RowCount) + 1)
     IN  /\ pv_evals' = pv_evals + 1
         /\ IF ~row.pv.ok
            THEN /\ Return(Failure(row.pv.error, row.pv.message))
                 /\ UNCHANGED <<all_valuations, lift_assumptions>>
            ELSE /\ all_valuations' =
                      Append(all_valuations,
                             [present_value |-> row.pv.value,
                              payout_scenario |-> row.payout_scenario,
                              volatility_scenario |-> row.volatility_scenario,
                              lift_scenario |-> row.lift_scenario])
                 /\ lift_assumptions' =
                      [baseline_audience |-> inputs.baseline_audience,
                       rpm |-> inputs.rpm,
                       investor_count |-> inputs.investor_count,
                       lift_per_investor |-> inputs.lift_per_investor]
                 /\ pc' = IF n = RowCount THEN "summary" ELSE pc
                 /\ UNCHANGED result
  /\ UNCHANGED <<context, inputs, adjusted_baseline, discount_rates, lift_valuations,
                 lift_idx, payout_idx, vol_idx, lift_amount, lifted_revenue, summary>>

InitAnyOrder ==
  /\ inputs \in CallInputs
  /\ order \in Orders
  /\ pc = "validate"
  /\ adjusted_baseline = Unset
  /\ discount_rates = Unset
  /\ all_valuations = Unset
  /\ lift_valuations = Unset
  /\ lift_assumptions = Unset
  /\ lift_idx = 0
  /\ payout_idx = 0
  /\ vol_idx = 0
  /\ lift_amount = Unset
  /\ lifted_revenue = Unset
  /\ summary = Unset
  /\ pv_evals = 0
  /\ result = Pending
  /\ tables = Unset
  /\ calls = 1
  /\ history = <<>>

\* The call in the sequential order (order = Sequential) or in another one.
NextAnyOrder ==
  \/ Call
  \/ AnyOrderRow

SpecAnyOrder == InitAnyOrder /\ [][NextAnyOrder]_vars

\* ------------------------------------------------------------------------
\* Vocabulary of the properties
\* ------------------------------------------------------------------------

Payouts == {"Day60", "Day90", "Day120"}

Volatilities == {"Low", "Typical", "High", "Extreme"}

Lifts == {"Low", "Medium", "High"}

LiftsOrNone == Lifts \cup {"None"}

Done == pc = "done"

Succeeded == result.status = "Ok"

FailedWith(kind) == result.status = "Err" /\ result.error = kind

KeyOf(row) == <<row.payout_scenario, row.volatility_scenario, row.lift_scenario>>

\* The premium the catalog documents for each volatility scenario.
PremiumOf(v) ==
  CASE v = "Low" -> 500 [] v = "Typical" -> 1000 [] v = "High" -> 2000 [] v = "Extreme" -> 3000

\* risk_free_rate + premium + platform_risk_premium of the inputs, as a plain sum.
TotalOf(v) == inputs.risk_free_rate + PremiumOf(v) + inputs.platform_risk_premium

InputsValid ==
  /\ inputs.raw_forecast > 0
  /\ inputs.baseline_audience > 0
  /\ inputs.rpm > 0

\* The present value of the row of `rows` keyed (p, v, l).
PVOf(rows, p, v, l) ==
  rows[CHOOSE i \in 1..Len(rows) : KeyOf(rows[i]) = <<p, v, l>>].present_value

\* The cash flow the code discounts for rows tagged l.
CashFlowOf(l) ==
  LET base == calculate_adjusted_baseline(inputs.raw_forecast,
                                          inputs.platform_adjustment_factor)
  IN  IF l = "None" THEN base
      ELSE FAdd(base, quarterly_lift(l, inputs.investor_count, inputs.lift_per_investor,
                                     inputs.rpm))

\* ------------------------------------------------------------------------
\* C1
\* ------------------------------------------------------------------------

\* C1: a returned result set has exactly 48 rows whose (payout, volatility,
\* lift-or-none) keys are pairwise distinct and cover every combination of
\* the 3 payouts, 4 volatilities and 4 lift-or-none tags: 12 baseline rows
\* and 12 rows for each lift scenario.
C1_ResultSetCoversAllKeys ==
  Succeeded =>
    LET rows == result.data.all_valuations
    IN  /\ Len(rows) = 48
        /\ \A i, j \in 1..Len(rows) : i # j => KeyOf(rows[i]) # KeyOf(rows[j])
        /\ {KeyOf(rows[i]) : i \in 1..Len(rows)} = Payouts \X Volatilities \X LiftsOrNone
        /\ \A l \in LiftsOrNone :
             Cardinality({i \in 1..Len(rows) : rows[i].lift_scenario = l}) = 12

\* A run on valid inputs (here with a negative adjusted baseline) returned
\* its result set.
C1_Witness ==
  /\ Done
  /\ Succeeded
  /\ inputs.platform_adjustment_factor < -FP
  /\ Len(result.data.all_valuations) = 48

\* ------------------------------------------------------------------------
\* C2
\* ------------------------------------------------------------------------

\* C2: when raw_forecast <= 0, baseline_audience <= 0 or rpm <= 0 the call
\* fails with InvalidInput, whatever the rates are, and no present value is
\* evaluated and no row is built before it does.
C2_InvalidInputFailsFirst ==
  ~InputsValid =>
    /\ pv_evals = 0
    /\ all_valuations = Unset
    /\ pc \in {"validate", "done"}
    /\ ~Succeeded
    /\ Done => FailedWith("InvalidInput")

\* A call whose only invalid field is rpm and whose total rates are all
\* below -1 ended with InvalidInput.
C2_Witness ==
  /\ Done
  /\ FailedWith("InvalidInput")
  /\ inputs.raw_forecast > 0
  /\ inputs.baseline_audience > 0
  /\ inputs.rpm <= 0
  /\ \A v \in Volatilities : TotalOf(v) < -FP
  /\ pv_evals = 0

\* ------------------------------------------------------------------------
\* C3
\* ------------------------------------------------------------------------

\* C3: on inputs that pass validation, if the total rate of any volatility
\* scenario is below -1 the call fails with CalculationError and returns no
\* result set; no returned result set has a row whose volatility scenario
\* has a total rate below -1.
C3_RateBelowMinusOneFails ==
  /\ (InputsValid /\ \E v \in Volatilities : TotalOf(v) < -FP) =>
       /\ ~Succeeded
       /\ Done => FailedWith("CalculationError")
  /\ Succeeded =>
       \A i \in 1..Len(result.data.all_valuations) :
         TotalOf(result.data.all_valuations[i].volatility_scenario) >= -FP

\* A call failed with CalculationError on valid inputs where the Low total
\* rate is below -1 while the Extreme one is above it.
C3_Witness ==
  /\ Done
  /\ FailedWith("CalculationError")
  /\ InputsValid
  /\ TotalOf("Low") < -FP
  /\ TotalOf("Extreme") > -FP

\* ------------------------------------------------------------------------
\* C4
\* ------------------------------------------------------------------------

\* C4: a call ends in exactly one of two outcomes: an error (InvalidInput or
\* CalculationError) that carries nothing but its kind and message, or a
\* complete result: 48 rows, one discount-rate entry per volatility
\* scenario, the summary statistics and the lift assumptions.  Nothing is
\* returned before the call ends.
C4_CompleteResultOrSingleError ==
  /\ ~Done => result = Pending
  /\ Done =>
       \/ /\ result.status = "Err"
          /\ DOMAIN result = {"status", "error", "message"}
          /\ result.error \in {"InvalidInput", "CalculationError"}
       \/ /\ result.status = "Ok"
          /\ DOMAIN result = {"status", "data"}
          /\ DOMAIN result.data =
               {"inputs", "all_valuations", "discount_rates", "summary", "lift_assumptions"}
          /\ Len(result.data.all_valuations) = 48
          /\ DOMAIN result.data.discount_rates = Volatilities
          /\ DOMAIN result.data.summary =
               {"min_valuation", "max_valuation", "central_estimate", "best_volatility",
                "worst_volatility", "volatility_impact", "lift_impact", "payout_impact",
                "adjusted_baseline"}
          /\ DOMAIN result.data.lift_assumptions =
               {"baseline_audience", "rpm", "investor_count", "lift_per_investor"}

\* A call ended with an error raised while rows were being computed.
C4_Witness ==
  /\ Done
  /\ result.status = "Err"
  /\ pv_evals >= 1

\* ------------------------------------------------------------------------
\* C5
\* ------------------------------------------------------------------------

\* C5: in a successful run summary.central_estimate is the present value of
\* the row keyed (Day90, Typical, Medium), which is the present value of
\* adjusted_baseline + Medium quarterly lift, discounted at
\* risk_free_rate + 0.10 + platform_risk_premium over 90/365 years.
C5_CentralEstimate ==
  Succeeded =>
    LET rows == result.data.all_valuations
        central == result.data.summary.central_estimate
        cash == FAdd(FMul(inputs.raw_forecast, FP + inputs.platform_adjustment_factor),
                     quarterly_lift("Medium", inputs.investor_count,
                                    inputs.lift_per_investor, inputs.rpm))
        rate == inputs.risk_free_rate + 1000 + inputs.platform_risk_premium
        time == FDiv(90 * FP, 365 * FP)
    IN  /\ \E i \in 1..Len(rows) : KeyOf(rows[i]) = <<"Day90", "Typical", "Medium">>
        /\ \A i \in 1..Len(rows) :
             KeyOf(rows[i]) = <<"Day90", "Typical", "Medium">> =>
               central = rows[i].present_value
        /\ central = FDiv(cash, powf(FP + rate, time))

\* A successful run with a non-zero lift whose central estimate differs
\* from the Day60 and the baseline present values.
C5_Witness ==
  /\ Done
  /\ Succeeded
  /\ inputs.investor_count > 0
  /\ inputs.lift_per_investor > 0
  /\ result.data.summary.central_estimate
       # PVOf(result.data.all_valuations, "Day60", "Typical", "Medium")
  /\ result.data.summary.central_estimate
       # PVOf(result.data.all_valuations, "Day90", "Typical", "None")

\* ------------------------------------------------------------------------
\* C6
\* ------------------------------------------------------------------------

RatesNonNegative == \A v \in Volatilities : TotalOf(v) >= 0

C7_Original ==
  Succeeded =>
    LET rows == result.data.all_valuations
    IN  \A p \in Payouts, v \in Volatilities :
          /\ PVOf(rows, p, v, "Low") <= PVOf(rows, p, v, "Medium")
          /\ PVOf(rows, p, v, "Medium") <= PVOf(rows, p, v, "High")

\* C7 (amended): in every successful run with lift_per_investor >= 0, for
\* each (payout, volatility), PV(Low lift) <= PV(Medium lift) <= PV(High lift).
C7_PVNonDecreasingInLift ==
  (Succeeded /\ inputs.lift_per_investor >= 0) =>
    LET rows == result.data.all_valuations
    IN  \A p \in Payouts, v \in Volatilities :
          /\ PVOf(rows, p, v, "Low") <= PVOf(rows, p, v, "Medium")
          /\ PVOf(rows, p, v, "Medium") <= PVOf(rows, p, v, "High")

\* A successful run with investors and a positive lift per investor in
\* which a higher activation factor gives a strictly higher present value.
C7_Witness ==
  /\ Done
  /\ Succeeded
  /\ inputs.investor_count > 0
  /\ inputs.lift_per_investor > 0
  /\ PVOf(result.data.all_valuations, "Day90", "Typical", "Low")
       < PVOf(result.data.all_valuations, "Day90", "Typical", "Medium")
  /\ PVOf(result.data.all_valuations, "Day90", "Typical", "Medium")
       < PVOf(result.data.all_valuations, "Day90", "Typical", "High")

\* ------------------------------------------------------------------------
\* C8
\* ------------------------------------------------------------------------

\* The rate table holds, for each volatility scenario, the two input rates
\* and the scenario's fixed premium, and total_rate is their plain sum.
RateTableOk(table) ==
  /\ DOMAIN table = Volatilities
  /\ \A v \in Volatilities :
       /\ table[v] = [risk_free_rate |-> inputs.risk_free_rate,
                      volatility_premium |-> PremiumOf(v),
                      platform_risk_premium |-> inputs.platform_risk_premium]
       /\ total_rate(table[v]) = TotalOf(v)

\* Each row is the cash flow of its lift tag discounted at the total rate
\* of its own volatility scenario over its own payout time.
RowsDiscountedAtOwnRate(rows) ==
  \A i \in 1..Len(rows) :
    rows[i].present_value =
      FDiv(CashFlowOf(rows[i].lift_scenario),
           powf(FP + TotalOf(rows[i].volatility_scenario),
                FDiv(days(rows[i].payout_scenario) * FP, 365 * FP)))

\* C8: the discount-rate mapping of a run holds, for each of the 4
\* volatility scenarios, {input risk_free_rate, the scenario's premium
\* (0.05, 0.10, 0.20, 0.30), input platform_risk_premium}; total_rate is the
\* plain sum of the three; every row is discounted at the total rate of its
\* own volatility scenario.
C8_DiscountRates ==
  /\ discount_rates # Unset => RateTableOk(discount_rates)
  /\ Succeeded =>
       /\ RateTableOk(result.data.discount_rates)
       /\ RowsDiscountedAtOwnRate(result.data.all_valuations)

\* A successful run with a non-zero risk-free rate different from the
\* platform risk premium returned its rate table and rows.
C8_Witness ==
  /\ Done
  /\ Succeeded
  /\ inputs.risk_free_rate # 0
  /\ inputs.risk_free_rate # inputs.platform_risk_premium
  /\ Len(result.data.all_valuations) = 48

\* ------------------------------------------------------------------------
\* C9
\* ------------------------------------------------------------------------

\* Twice the activation factor: 1, 2, 3 for Low, Medium, High.
TwiceFactor(l) == CASE l = "Low" -> 1 [] l = "Medium" -> 2 [] l = "High" -> 3

\* C9: for every lift scenario, additional_audience = investor_count *
\* lift_per_investor * activation_factor and quarterly_lift =
\* additional_audience * (rpm / 1000) * 3, for the inputs of every call and
\* for the lift_amount the lift loop holds; 1000 investors at lift 10 give
\* 10,000 (Medium) and 15,000 (High) audience and, with rpm 20, 600
\* (Medium) and 300 (Low) quarterly revenue.
C9_LiftModel ==
  LET ic == inputs.investor_count
      lpi == inputs.lift_per_investor
      rpm == inputs.rpm
  IN  /\ \A l \in Lifts :
           /\ 2 * additional_audience(l, ic, lpi) = ic * lpi * TwiceFactor(l)
           /\ 2 * quarterly_lift(l, ic, lpi, rpm)
                = ic * (lpi \div FP) * TwiceFactor(l) * (rpm \div 1000) * 3
      /\ pc \in {"lift_row", "lift_end"} =>
           2 * lift_amount
             = ic * (lpi \div FP) * TwiceFactor(LiftAll[lift_idx]) * (rpm \div 1000) * 3
      /\ (ic = 1000 /\ lpi = 10 * FP) =>
           /\ additional_audience("Medium", ic, lpi) = 10000 * FP
           /\ additional_audience("High", ic, lpi) = 15000 * FP
      /\ (ic = 1000 /\ lpi = 10 * FP /\ rpm = 20 * FP) =>
           /\ quarterly_lift("Medium", ic, lpi, rpm) = 600 * FP
           /\ quarterly_lift("Low", ic, lpi, rpm) = 300 * FP

\* The lift loop holds the Medium lift revenue 600 for 1000 investors at
\* lift 10 and rpm 20.
C9_Witness ==
  /\ pc = "lift_row"
  /\ LiftAll[lift_idx] = "Medium"
  /\ inputs.investor_count = 1000
  /\ inputs.lift_per_investor = 10 * FP
  /\ inputs.rpm = 20 * FP
  /\ lift_amount = 600 * FP

\* ------------------------------------------------------------------------
\* C10
\* ------------------------------------------------------------------------

RatesAboveMinusOne == \A v \in Volatilities : TotalOf(v) > -FP

\* C10: with investor_count = 0 or lift_per_investor = 0, the other inputs
\* valid and the total rates above -1, the lift revenue of every lift
\* scenario is zero, the call does not fail, and each lifted row's present
\* value equals the baseline row's for the same payout and volatility.
C10_ZeroLift ==
  (/\ InputsValid
   /\ RatesAboveMinusOne
   /\ (inputs.investor_count = 0 \/ inputs.lift_per_investor = 0)) =>
    /\ \A l \in Lifts :
         quarterly_lift(l, inputs.investor_count, inputs.lift_per_investor, inputs.rpm) = 0
    /\ pc \in {"lift_row", "lift_end"} => lift_amount = 0 /\ lifted_revenue = adjusted_baseline
    /\ result.status # "Err"
    /\ Done => Succeeded
    /\ Succeeded =>
         LET rows == result.data.all_valuations
         IN  /\ Len(rows) = 48
             /\ \A i \in 1..Len(rows) :
                  rows[i].present_value
                    = PVOf(rows, rows[i].payout_scenario, rows[i].volatility_scenario, "None")

\* A successful run with investors but a zero lift per investor.
C10_Witness ==
  /\ Done
  /\ Succeeded
  /\ inputs.investor_count > 0
  /\ inputs.lift_per_investor = 0
  /\ PVOf(result.data.all_valuations, "Day90", "Typical", "High")
       = PVOf(result.data.all_valuations, "Day90", "Typical", "None")

\* ------------------------------------------------------------------------
\* C11
\* ------------------------------------------------------------------------

\* C11: a platform_adjustment_factor <= -1 is not rejected: with the three
\* validated inputs positive the call never fails with InvalidInput, the
\* adjusted baseline raw_forecast * (1 + platform_adjustment_factor) is zero
\* or negative, and with every total rate above -1 the call does not fail at
\* all and returns 48 rows in which a negative cash flow has a negative
\* present value and a zero cash flow a zero one.
C11_AdjustmentAtMostMinusOne ==
  (InputsValid /\ inputs.platform_adjustment_factor <= -FP) =>
    /\ ~FailedWith("InvalidInput")
    /\ pc \notin {"validate", "adjust"} =>
         /\ adjusted_baseline
              = (inputs.raw_forecast \div FP) * (FP + inputs.platform_adjustment_factor)
         /\ adjusted_baseline <= 0
    /\ RatesAboveMinusOne =>
         /\ result.status # "Err"
         /\ Done => Succeeded
         /\ Succeeded =>
              LET rows == result.data.all_valuations
              IN  /\ Len(rows) = 48
                  /\ \A i \in 1..Len(rows) :
                       /\ IsFinite(rows[i].present_value)
                       /\ Sign(CashFlowOf(rows[i].lift_scenario)) <= 0 =>
                            Sign(rows[i].present_value)
                              = Sign(CashFlowOf(rows[i].lift_scenario))

\* A run with platform_adjustment_factor = -1.5 returned a result whose
\* baseline present values are negative.
C11_Witness ==
  /\ Done
  /\ Succeeded
  /\ inputs.platform_adjustment_factor < -FP
  /\ adjusted_baseline < 0
  /\ PVOf(result.data.all_valuations, "Day90", "Typical", "None") < 0

\* ------------------------------------------------------------------------
\* C12
\* ------------------------------------------------------------------------

\* C12: in a returned result the three impacts are computed from fixed rows:
\* volatility_impact = (PV(Day90, Low, Medium) - PV(Day90, Extreme, Medium))
\* / PV(Day90, Low, Medium) * 100, lift_impact = (PV(Day90, Typical, High)
\* - PV(Day90, Typical, Low)) / PV(Day90, Typical, Low) * 100, and
\* payout_impact = (PV(Day60, Typical, Medium) - PV(Day120, Typical, Medium))
\* / PV(Day60, Typical, Medium) * 100.
C12_ImpactFormulas ==
  Succeeded =>
    LET rows == result.data.all_valuations
        PV(p, v, l) == PVOf(rows, p, v, l)
        s == result.data.summary
    IN  /\ s.volatility_impact
             = FMul(FDiv(FSub(PV("Day90", "Low", "Medium"), PV("Day90", "Extreme", "Medium")),
                         PV("Day90", "Low", "Medium")),
                    100 * FP)
        /\ s.lift_impact
             = FMul(FDiv(FSub(PV("Day90", "Typical", "High"), PV("Day90", "Typical", "Low")),
                         PV("Day90", "Typical", "Low")),
                    100 * FP)
        /\ s.payout_impact
             = FMul(FDiv(FSub(PV("Day60", "Typical", "Medium"), PV("Day120", "Typical", "Medium")),
                         PV("Day60", "Typical", "Medium")),
                    100 * FP)

\* A returned result in which all three impacts are finite and positive.
C12_Witness ==
  /\ Done
  /\ Succeeded
  /\ IsFinite(result.data.summary.volatility_impact)
  /\ result.data.summary.volatility_impact > 0
  /\ IsFinite(result.data.summary.lift_impact)
  /\ result.data.summary.lift_impact > 0
  /\ IsFinite(result.data.summary.payout_impact)
  /\ result.data.summary.payout_impact > 0

\* ------------------------------------------------------------------------
\* C13
\* ------------------------------------------------------------------------

\* C13: in a returned result min_valuation and max_valuation are the least
\* and the greatest present value of the 48 rows: every row's present value
\* lies between them, each of them is the present value of some row, and the
\* central estimate lies between them.
C13_MinMaxOverAllRows ==
  Succeeded =>
    LET rows == result.data.all_valuations
        s == result.data.summary
    IN  /\ Len(rows) = 48
        /\ IsFinite(s.min_valuation) /\ IsFinite(s.max_valuation)
        /\ \A i \in 1..Len(rows) :
             s.min_valuation <= rows[i].present_value
               /\ rows[i].present_value <= s.max_valuation
        /\ \E i \in 1..Len(rows) : rows[i].present_value = s.min_valuation
        /\ \E i \in 1..Len(rows) : rows[i].present_value = s.max_valuation
        /\ s.min_valuation <= s.central_estimate
        /\ s.central_estimate <= s.max_valuation

\* A returned result whose least present value is positive and strictly
\* below the central estimate, itself strictly below the greatest.
C13_Witness ==
  /\ Done
  /\ Succeeded
  /\ 0 < result.data.summary.min_valuation
  /\ result.data.summary.min_valuation < result.data.summary.central_estimate
  /\ result.data.summary.central_estimate < result.data.summary.max_valuation

\* ------------------------------------------------------------------------
\* C14
\* ------------------------------------------------------------------------

SevenKeys ==
  {<<"Day90", "Typical", "Medium">>, <<"Day90", "Low", "Medium">>,
   <<"Day90", "Extreme", "Medium">>, <<"Day90", "Typical", "Low">>,
   <<"Day90", "Typical", "High">>, <<"Day60", "Typical", "Medium">>,
   <<"Day120", "Typical", "Medium">>}

\* The keys that no row of `rows` carries.
MissingKeys(rows) ==
  {k \in Payouts \X Volatilities \X LiftsOrNone :
     \A i \in 1..Len(rows) : KeyOf(rows[i]) # k}

\* C14: calculate_summary_statistics applied to a row set that lacks a row
\* for one of the seven fixed keys returns CalculationError: the call ends
\* with that error, no summary is ever produced and no default value stands
\* in for the missing row.
C14_MissingKeyIsCalculationError ==
  (calls = 1 /\ MissingKeys(all_valuations) \cap SevenKeys # {}) =>
    /\ ~calculate_summary_statistics(all_valuations, adjusted_baseline).ok
    /\ pc \in {"summary", "done"}
    /\ summary = Unset
    /\ Done =>
         /\ FailedWith("CalculationError")
         /\ result.message = "Could not find value for scenario combo"

\* calculate_summary_statistics returned CalculationError on a non-empty
\* row set that lacks only the (Day120, Typical, Medium) row.
C14_Witness ==
  /\ calls = 1
  /\ Done
  /\ FailedWith("CalculationError")
  /\ Len(all_valuations) = RowCount - 1
  /\ MissingKeys(all_valuations) = {<<"Day120", "Typical", "Medium">>}

\* ------------------------------------------------------------------------
\* C15
\* ------------------------------------------------------------------------

\* C15: whatever rows the ReportData holds, rendering is possible, and the
\* baseline table and the table of each lift scenario have one row per
\* payout holding the payout's name and one cell per volatility; the cell of
\* (payout, volatility) is the formatted present value of the first row with
\* that payout, that volatility and no lift scenario (baseline table) or that
\* lift scenario, and the marker "N/A" when there is no such row.
C15_TablesCoverEveryCell ==
  /\ (pc = "done" /\ Succeeded /\ tables = Unset) => ENABLED GenerateReport
  /\ tables # Unset =>
       LET rows == result.data.all_valuations
           payouts == <<"Day60", "Day90", "Day120">>
           volatilities == <<"Low", "Typical", "High", "Extreme">>
           table(l) == IF l = "None" THEN tables.baseline ELSE tables.lift[l]
       IN  /\ DOMAIN tables.lift = Lifts
           /\ \A l \in LiftsOrNone :
                /\ Len(table(l)) = Len(payouts)
                /\ \A p \in 1..Len(payouts) :
                     /\ Len(table(l)[p]) = 1 + Len(volatilities)
                     /\ table(l)[p][1] = PayoutName(payouts[p])
                     /\ \A v \in 1..Len(volatilities) :
                          LET matching == {i \in 1..Len(rows) :
                                             KeyOf(rows[i]) = <<payouts[p], volatilities[v], l>>}
                              cell == table(l)[p][v + 1]
                          IN  IF matching = {}
                              THEN cell = "N/A"
                              ELSE \E i \in matching :
                                     /\ \A j \in matching : i <= j
                                     /\ cell = format_currency(rows[i].present_value)
                                     /\ cell # "N/A"

\* The tables of a ReportData lacking the rows (Day120, Extreme, none) and
\* (Day90, Typical, Medium) were rendered: those two cells hold "N/A" and the
\* cell of the row whose present value is -57511.5 holds "$-57,512".
C15_Witness ==
  /\ calls = 0
  /\ tables # Unset
  /\ MissingKeys(result.data.all_valuations)
       = {<<"Day120", "Extreme", "None">>, <<"Day90", "Typical", "Medium">>}
  /\ tables.baseline[3][5] = "N/A"
  /\ tables.lift["Medium"][2][3] = "N/A"
  /\ tables.baseline[1][2] = "$-57,512"
  /\ tables.baseline[1][1] = "60 Days"

\* ------------------------------------------------------------------------
\* C16
\* ------------------------------------------------------------------------

\* What a returned ReportData echoes of the inputs.
InputsEchoed ==
  Succeeded =>
    /\ \A f \in DOMAIN inputs : result.data.inputs[f] = inputs[f]
    /\ DOMAIN result.data.inputs = DOMAIN inputs
    /\ result.data.lift_assumptions.baseline_audience = inputs.baseline_audience
    /\ result.data.lift_assumptions.rpm = inputs.rpm
    /\ result.data.lift_assumptions.investor_count = inputs.investor_count
    /\ result.data.lift_assumptions.lift_per_investor = inputs.lift_per_investor
    /\ DOMAIN result.data.lift_assumptions
         = {"baseline_audience", "rpm", "investor_count", "lift_per_investor"}
    /\ result.data.summary.adjusted_baseline
         = (inputs.raw_forecast \div FP) * (FP + inputs.platform_adjustment_factor)

\* C16: a returned ReportData carries the inputs unchanged, field by field,
\* its lift_assumptions carry the input baseline_audience, rpm,
\* investor_count and lift_per_investor, its summary.adjusted_baseline is
\* raw_forecast * (1 + platform_adjustment_factor), and no step of the call
\* modifies the caller's inputs.
C16_InputsEchoedAndUnmodified == [](InputsEchoed) /\ [][inputs' = inputs]_vars

\* A returned ReportData for inputs with investors and a non-zero adjustment.
C16_Witness ==
  /\ Done
  /\ Succeeded
  /\ result.data.inputs.investor_count > 0
  /\ result.data.lift_assumptions.investor_count = inputs.investor_count
  /\ result.data.inputs.platform_adjustment_factor = -910
  /\ result.data.summary.adjusted_baseline < inputs.raw_forecast

\* ------------------------------------------------------------------------
\* C17
\* ------------------------------------------------------------------------

\* C17: a call of calculate_full_valuation returns what every earlier call
\* with equal inputs returned, whatever calls were made in between: the same
\* error kind and message, or the same inputs echo, rows, rate table,
\* summary and lift assumptions.
C17_EqualInputsEqualOutcome ==
  Done =>
    \A i \in 1..Len(history) :
      history[i].inputs = inputs => history[i].result = result

\* A third call returned a result for the inputs of the first call, after a
\* second call with other inputs that failed.
C17_Witness ==
  /\ calls = 3
  /\ Done
  /\ Succeeded
  /\ Len(result.data.all_valuations) = 48
  /\ history[1].inputs = inputs
  /\ history[2].inputs # inputs
  /\ history[2].result.status = "Err"

\* ------------------------------------------------------------------------
\* C18
\* ------------------------------------------------------------------------

\* C18: a total discount rate of exactly -1 makes the denominator
\* (1 + rate)^time_years zero for each of the three payout time fractions,
\* and calculate_present_value then fails with CalculationError through its
\* zero-denominator check, the rate < -1 check not applying: a run whose Low
\* total rate is -1 fails so at its first evaluation and builds no row, and
\* no returned result has a row discounted at a total rate of -1.
C18_ZeroDenominatorFails ==
  /\ \A p \in Payouts :
       /\ powf(FAdd(FP, -FP), years(p)) = 0
       /\ ~FLt(-FP, -FP)
       /\ calculate_present_value(CashFlowOf("None"), -FP, years(p))
            = Err("CalculationError",
                  "Present value calculation resulted in division by zero")
  /\ (InputsValid /\ \E v \in Volatilities : TotalOf(v) = -FP) =>
       /\ ~Succeeded
       /\ Done => FailedWith("CalculationError")
  /\ (InputsValid /\ TotalOf("Low") = -FP) =>
       /\ pc \notin {"validate", "adjust", "rates"} => all_valuations = <<>>
       /\ Done =>
            /\ pv_evals = 1
            /\ result.message = "Present value calculation resulted in division by zero"
  /\ Succeeded =>
       \A i \in 1..Len(result.data.all_valuations) :
         TotalOf(result.data.all_valuations[i].volatility_scenario) # -FP

\* A run whose Low total rate is exactly -1 (risk-free 0, platform risk
\* premium -1.05) ended in the zero-denominator error.
C18_Witness ==
  /\ Done
  /\ InputsValid
  /\ TotalOf("Low") = -FP
  /\ FailedWith("CalculationError")
  /\ result.message = "Present value calculation resulted in division by zero"

\* ------------------------------------------------------------------------
\* C19
\* ------------------------------------------------------------------------

\* The present values of `rows` by key.
Keyed(rows) == {<<KeyOf(rows[i]), rows[i].present_value>> : i \in 1..Len(rows)}

\* C19: the row computations do not depend on their order: once every row
\* is computed, in whatever order, the rows carry the same present value for
\* each of the 48 keys as the sequential baseline-first enumeration, and the
\* summary derived from them equals the summary of the sequential rows; a run
\* in another order fails only with CalculationError.
C19_OrderIndependent ==
  /\ (pc \in {"summary", "return"} \/ Succeeded) =>
       LET sequential == SequentialRows
       IN  /\ Len(all_valuations) = RowCount
           /\ Keyed(all_valuations) = Keyed(sequential)
           /\ order = Sequential => all_valuations = sequential
           /\ pc = "return" =>
                summary
                  = calculate_summary_statistics(sequential, adjusted_baseline).value
           /\ Succeeded =>
                /\ result.data.summary
                     = calculate_summary_statistics(sequential, adjusted_baseline).value
                /\ Keyed(result.data.all_valuations) = Keyed(sequential)
  /\ (InputsValid /\ result.status = "Err") => FailedWith("CalculationError")

\* A run that computed the rows in another order, a lifted row before the
\* second baseline row, returned its result.
C19_Witness ==
  /\ Done
  /\ Succeeded
  /\ order.stride > 1
  /\ result.data.all_valuations # SequentialRows
  /\ result.data.all_valuations[1].lift_scenario = "None"
  /\ result.data.all_valuations[2].lift_scenario # "None"
  /\ inputs.investor_count > 0

\* ------------------------------------------------------------------------
\* C20
\* ------------------------------------------------------------------------

\* C20: within calculate_full_valuation the missing-key error of
\* calculate_summary_statistics cannot occur: when control reaches the
\* summary all 48 present values were evaluated and each of the seven keys
\* has exactly one row, so the summary is produced; and a CalculationError
\* the call returns carries one of the two messages of
\* calculate_present_value, raised by the last evaluation made, before any
\* summary.
C20_MissingKeyErrorUnreachable ==
  /\ pc = "summary" =>
       /\ pv_evals = 48
       /\ \A k \in SevenKeys :
            Cardinality({i \in 1..Len(all_valuations) : KeyOf(all_valuations[i]) = k}) = 1
       /\ calculate_summary_statistics(all_valuations, adjusted_baseline).ok
  /\ pc = "return" => pv_evals = 48
  /\ FailedWith("CalculationError") =>
       /\ result.message # "Could not find value for scenario combo"
       /\ result.message \in
            {"Discount rate would result in division by zero or negative denominator",
             "Present value calculation resulted in division by zero"}
       /\ pv_evals >= 1
       /\ pv_evals <= 48
       /\ Len(all_valuations) = pv_evals - 1
       /\ summary = Unset

\* All 48 evaluations succeeded and the summary was produced from the rows.
C20_Witness ==
  /\ pc = "return"
  /\ pv_evals = 48
  /\ summary.central_estimate = PVOf(all_valuations, "Day90", "Typical", "Medium")
  /\ result = Pending

\* ------------------------------------------------------------------------
\* C21
\* ------------------------------------------------------------------------

\* C21: in a returned result the total discount rates increase strictly
\* with the volatility scenario, Low < Typical < High < Extreme, and for each
\* payout and each lift-or-none whose cash flow is positive the present
\* values do not increase with it: PV(Low) >= PV(Typical) >= PV(High)
\* >= PV(Extreme).
C21_PVNonIncreasingInVolatility ==
  Succeeded =>
    LET rows == result.data.all_valuations
        rate(v) == total_rate(result.data.discount_rates[v])
    IN  /\ rate("Low") < rate("Typical")
        /\ rate("Typical") < rate("High")
        /\ rate("High") < rate("Extreme")
        /\ \A p \in Payouts, l \in LiftsOrNone :
             CashFlowOf(l) > 0 =>
               /\ PVOf(rows, p, "Low", l) >= PVOf(rows, p, "Typical", l)
               /\ PVOf(rows, p, "Typical", l) >= PVOf(rows, p, "High", l)
               /\ PVOf(rows, p, "High", l) >= PVOf(rows, p, "Extreme", l)

\* A returned result with a negative Low rate and a positive lifted cash
\* flow whose Day120 present values fall strictly from Low to Extreme.
C21_Witness ==
  /\ Done
  /\ Succeeded
  /\ TotalOf("Low") < 0
  /\ CashFlowOf("High") > 0
  /\ PVOf(result.data.all_valuations, "Day120", "Low", "High")
       > PVOf(result.data.all_valuations, "Day120", "Typical", "High")
  /\ PVOf(result.data.all_valuations, "Day120", "Typical", "High")
       > PVOf(result.data.all_valuations, "Day120", "High", "High")
  /\ PVOf(result.data.all_valuations, "Day120", "High", "High")
       > PVOf(result.data.all_valuations, "Day120", "Extreme", "High")

\* ------------------------------------------------------------------------
\* C22
\* ------------------------------------------------------------------------

\* On inputs that pass validation: a CalculationError comes from the first
\* evaluation (baseline, Day60, Low) with no row built, and the call fails
\* exactly when risk_free_rate + 0.05 + platform_risk_premium <= -1.
FailsAtFirstEvaluationOnly ==
  InputsValid =>
    /\ result.status = "Err" =>
         /\ FailedWith("CalculationError")
         /\ pv_evals = 1
         /\ all_valuations = <<>>
         /\ PayoutAll[payout_idx] = "Day60"
         /\ VolatilityAll[vol_idx] = "Low"
         /\ lift_idx = 0
    /\ Done => (result.status = "Err"
                  <=> inputs.risk_free_rate + 500 + inputs.platform_risk_premium <= -FP)
    /\ inputs.risk_free_rate + 500 + inputs.platform_risk_premium <= -FP =>
         ~Succeeded /\ pv_evals <= 1

\* C22: for inputs that pass validation a CalculationError is raised only
\* by the first present-value evaluation (baseline, Day60, Low): the call
\* fails exactly when risk_free_rate + 0.05 + platform_risk_premium <= -1,
\* and once an evaluation has succeeded no later step of the call fails.
C22_OnlyFirstEvaluationFails ==
  /\ [](FailsAtFirstEvaluationOnly)
  /\ [][(pv_evals >= 1 /\ result.status # "Err") => result'.status # "Err"]_vars

\* A run whose Low total rate is below -1 while its Extreme total rate is
\* above -1 failed at its first evaluation.
C22_Witness ==
  /\ Done
  /\ InputsValid
  /\ TotalOf("Low") < -FP
  /\ TotalOf("Extreme") > -FP
  /\ FailedWith("CalculationError")
  /\ pv_evals = 1
  /\ all_valuations = <<>>

\* ------------------------------------------------------------------------
\* C23
\* ------------------------------------------------------------------------

\* C23: the impacts are computed without a guard on their divisor: with
\* the validated inputs positive and every total rate above -1 the call
\* never fails and returns a result, in which an impact whose reference
\* present value is zero is not finite (NaN for 0/0, an infinity otherwise)
\* and an impact whose reference is not zero, negative ones included, is
\* finite; with platform_adjustment_factor = -1 and investor_count = 0 every
\* present value is 0 and the three impacts are NaN.
C23_ImpactsUnguarded ==
  (InputsValid /\ RatesAboveMinusOne) =>
    /\ result.status # "Err"
    /\ Done => Succeeded
    /\ Succeeded =>
         LET rows == result.data.all_valuations
             s == result.data.summary
             low_vol_value == PVOf(rows, "Day90", "Low", "Medium")
             low_lift_value == PVOf(rows, "Day90", "Typical", "Low")
             day60_value == PVOf(rows, "Day60", "Typical", "Medium")
         IN  /\ IsFinite(s.volatility_impact) <=> low_vol_value # 0
             /\ IsFinite(s.lift_impact) <=> low_lift_value # 0
             /\ IsFinite(s.payout_impact) <=> day60_value # 0
             /\ (inputs.platform_adjustment_factor = -FP /\ inputs.investor_count = 0) =>
                  /\ \A i \in 1..Len(rows) : rows[i].present_value = 0
                  /\ IsNaN(s.volatility_impact)
                  /\ IsNaN(s.lift_impact)
                  /\ IsNaN(s.payout_impact)

\* A run with platform_adjustment_factor = -1 and no investors returned a
\* result whose present values are all 0 and whose three impacts are NaN.
C23_Witness ==
  /\ Done
  /\ Succeeded
  /\ inputs.platform_adjustment_factor = -FP
  /\ inputs.investor_count = 0
  /\ result.data.summary.central_estimate = 0
  /\ IsNaN(result.data.summary.volatility_impact)
  /\ IsNaN(result.data.summary.lift_impact)
  /\ IsNaN(result.data.summary.payout_impact)

====
